---------------------------- MODULE Spec2Model ----------------------------
(***************************************************************************)
(* Toon Plus (src/toon_plus/toon_plus.pyx): the value encoder, the two     *)
(* splitters, the value parser and the document encoder and decoder.       *)
(*                                                                         *)
(* A text is a sequence of one-character strings.  A value is a record     *)
(* whose tag names its Python type:                                        *)
(*   [tag |-> "Null"]                 None                                 *)
(*   [tag |-> "Bool",  b |-> ...]     bool                                 *)
(*   [tag |-> "Int",   n |-> ...]     int                                  *)
(*   [tag |-> "Float", neg, ip, fd]   float, as sign, integer part and     *)
(*                                    fraction digits (no trailing zero)   *)
(*   [tag |-> "Str",   s |-> text]    str                                  *)
(*   [tag |-> "List",  items |-> ..]  list                                 *)
(*   [tag |-> "Map",   kvs |-> ...]   dict: a sequence of <<key, value>>   *)
(*                                    pairs in insertion order, keys       *)
(*                                    unique                               *)
(* A call that can raise returns [ok |-> TRUE, ...] or                     *)
(* [ok |-> FALSE, err |-> kind].                                           *)
(***************************************************************************)
EXTENDS Integers, Sequences, FiniteSets, TLC

VARIABLES pc, doc, text, enc, out, segs

vars == <<pc, doc, text, enc, out, segs>>

----------------------------------------------------------------------------
(* Characters *)

NL == "\n"
CR == "\r"
TAB == "\t"
SP == " "
QUOTE == "\""
BSL == "\\"

UpperLetters == <<"A","B","C","D","E","F","G","H","I","J","K","L","M",
                  "N","O","P","Q","R","S","T","U","V","W","X","Y","Z">>
LowerLetters == <<"a","b","c","d","e","f","g","h","i","j","k","l","m",
                  "n","o","p","q","r","s","t","u","v","w","x","y","z">>
Digits == <<"0","1","2","3","4","5","6","7","8","9">>

Range(f) == {f[i] : i \in DOMAIN f}

IsDigit(c) == c \in Range(Digits)

DigitVal(c) == (CHOOSE i \in 1..10 : Digits[i] = c) - 1

\* [A-Za-z0-9_] of the header pattern
IsIdentChar(c) ==
    c \in Range(UpperLetters) \cup Range(LowerLetters) \cup Range(Digits) \cup {"_"}

\* the characters str.strip() removes (the ASCII ones the model uses)
IsSpace(c) == c \in {SP, TAB, NL, CR}

LowerChar(c) ==
    IF c \in Range(UpperLetters)
    THEN LowerLetters[CHOOSE i \in 1..26 : UpperLetters[i] = c]
    ELSE c

\* str.lower()
Lower(t) == [i \in 1..Len(t) |-> LowerChar(t[i])]

SetMin(S) == CHOOSE x \in S : \A y \in S : x <= y
SetMax(S) == CHOOSE x \in S : \A y \in S : x >= y

\* str.strip()
Strip(t) ==
    LET keep == {i \in 1..Len(t) : ~IsSpace(t[i])}
    IN  IF keep = {} THEN <<>> ELSE SubSeq(t, SetMin(keep), SetMax(keep))

\* text[a:] with a 0-based
From(t, a) == SubSeq(t, a + 1, Len(t))

\* sep.join(ts)
RECURSIVE Join(_, _)
Join(sep, ts) ==
    IF ts = <<>> THEN <<>>
    ELSE IF Len(ts) = 1 THEN ts[1]
    ELSE ts[1] \o sep \o Join(sep, Tail(ts))

\* s.split(sep) for a one-character sep
RECURSIVE SplitOn(_, _)
SplitOn(t, sep) ==
    LET hits == {i \in 1..Len(t) : t[i] = sep}
    IN  IF hits = {} THEN <<t>>
        ELSE LET i == SetMin(hits)
             IN  <<SubSeq(t, 1, i - 1)>> \o SplitOn(SubSeq(t, i + 1, Len(t)), sep)

\* s.replace('"', '\\"')
RECURSIVE EscapeQuotes(_)
EscapeQuotes(t) ==
    IF t = <<>> THEN <<>>
    ELSE (IF Head(t) = QUOTE THEN <<BSL, QUOTE>> ELSE <<Head(t)>>)
         \o EscapeQuotes(Tail(t))

\* s.replace('\\"', '"')
RECURSIVE UnescapeQuotes(_)
UnescapeQuotes(t) ==
    IF t = <<>> THEN <<>>
    ELSE IF Len(t) >= 2 /\ t[1] = BSL /\ t[2] = QUOTE
         THEN <<QUOTE>> \o UnescapeQuotes(SubSeq(t, 3, Len(t)))
         ELSE <<Head(t)>> \o UnescapeQuotes(Tail(t))

\* s.strip('"')
StripQuotes(t) ==
    LET keep == {i \in 1..Len(t) : t[i] # QUOTE}
    IN  IF keep = {} THEN <<>> ELSE SubSeq(t, SetMin(keep), SetMax(keep))

----------------------------------------------------------------------------
(* Values *)

VNull == [tag |-> "Null"]
VBool(b) == [tag |-> "Bool", b |-> b]
VInt(n) == [tag |-> "Int", n |-> n]
VFloat(neg, ip, fd) == [tag |-> "Float", neg |-> neg, ip |-> ip, fd |-> fd]
VStr(s) == [tag |-> "Str", s |-> s]
VList(items) == [tag |-> "List", items |-> items]
VMap(kvs) == [tag |-> "Map", kvs |-> kvs]

Ok(t) == [ok |-> TRUE, text |-> t]
Val(v) == [ok |-> TRUE, val |-> v]
Err(e) == [ok |-> FALSE, err |-> e]

Keys(kvs) == [i \in 1..Len(kvs) |-> kvs[i][1]]

\* d[k] = v on an insertion-ordered dict
MapSet(kvs, k, v) ==
    IF \E i \in 1..Len(kvs) : kvs[i][1] = k
    THEN [i \in 1..Len(kvs) |-> IF kvs[i][1] = k THEN <<k, v>> ELSE kvs[i]]
    ELSE Append(kvs, <<k, v>>)

HasKey(kvs, k) == \E i \in 1..Len(kvs) : kvs[i][1] = k

\* d[k]
MapGet(kvs, k) == kvs[CHOOSE i \in 1..Len(kvs) : kvs[i][1] = k][2]

\* dict(zip(keys, vals)): pairs up to the shorter, a repeated key keeps its
\* first position and its last value
RECURSIVE ZipFrom(_, _, _, _)
ZipFrom(keys, vals, i, acc) ==
    IF i > Len(keys) \/ i > Len(vals) THEN acc
    ELSE ZipFrom(keys, vals, i + 1, MapSet(acc, keys[i], vals[i]))

DictZip(keys, vals) == ZipFrom(keys, vals, 1, <<>>)

----------------------------------------------------------------------------
(* str() of the numbers, int() and float() of a matched token *)

RECURSIVE NatToText(_)
NatToText(n) ==
    IF n < 10 THEN <<Digits[n + 1]>>
    ELSE NatToText(n \div 10) \o <<Digits[(n % 10) + 1]>>

IntToText(n) == IF n < 0 THEN <<"-">> \o NatToText(-n) ELSE NatToText(n)

RECURSIVE DigitsToNat(_)
DigitsToNat(t) ==
    IF t = <<>> THEN 0
    ELSE 10 * DigitsToNat(SubSeq(t, 1, Len(t) - 1)) + DigitVal(t[Len(t)])

LeadingZeros(fd) ==
    LET nz == {i \in 1..Len(fd) : fd[i] # "0"}
    IN  IF nz = {} THEN Len(fd) ELSE SetMin(nz) - 1

\* repr of a float: fixed notation, and exponent notation below 1e-4 (the
\* model's floats stay below 1e16, where repr turns to exponent notation too)
FloatToText(f) ==
    LET z == LeadingZeros(f.fd)
        m == SubSeq(f.fd, z + 1, Len(f.fd))
        e == NatToText(z + 1)
        body ==
            IF f.ip = 0 /\ f.fd # <<>> /\ z >= 4
            THEN <<m[1]>> \o (IF Len(m) > 1 THEN <<".">> \o Tail(m) ELSE <<>>)
                 \o <<"e", "-">> \o (IF Len(e) < 2 THEN <<"0">> \o e ELSE e)
            ELSE NatToText(f.ip) \o <<".">>
                 \o (IF f.fd = <<>> THEN <<"0">> ELSE f.fd)
    IN  (IF f.neg THEN <<"-">> ELSE <<>>) \o body

AllDigits(t) == t # <<>> /\ \A i \in 1..Len(t) : IsDigit(t[i])

\* re.fullmatch(r"-?\d+", tok)
IsIntTok(tok) ==
    IF tok # <<>> /\ tok[1] = "-" THEN AllDigits(Tail(tok)) ELSE AllDigits(tok)

\* re.fullmatch(r"-?\d+\.\d+", tok)
IsFloatTok(tok) ==
    LET u == IF tok # <<>> /\ tok[1] = "-" THEN Tail(tok) ELSE tok
    IN  \E i \in 1..Len(u) :
            /\ u[i] = "."
            /\ AllDigits(SubSeq(u, 1, i - 1))
            /\ AllDigits(SubSeq(u, i + 1, Len(u)))

TextToInt(tok) ==
    IF tok[1] = "-" THEN 0 - DigitsToNat(Tail(tok)) ELSE DigitsToNat(tok)

TextToFloat(tok) ==
    LET neg == tok[1] = "-"
        u == IF neg THEN Tail(tok) ELSE tok
        dot == CHOOSE i \in 1..Len(u) : u[i] = "."
        fr == SubSeq(u, dot + 1, Len(u))
        nz == {i \in 1..Len(fr) : fr[i] # "0"}
    IN  VFloat(neg, DigitsToNat(SubSeq(u, 1, dot - 1)),
              IF nz = {} THEN <<>> ELSE SubSeq(fr, 1, SetMax(nz)))


----------------------------------------------------------------------------
(* encode_value *)

ReservedChars == {",", "[", "]", "{", "}", NL, CR, QUOTE}

WordTrue == <<"t", "r", "u", "e">>
WordFalse == <<"f", "a", "l", "s", "e">>
WordNone == <<"n", "o", "n", "e">>
WordNull == <<"n", "u", "l", "l">>

\* the first failure among results, or none
FirstErr(rs) ==
    LET bad == {i \in 1..Len(rs) : ~rs[i].ok}
    IN  IF bad = {} THEN Ok(<<>>) ELSE rs[SetMin(bad)]

Texts(rs) == [i \in 1..Len(rs) |-> rs[i].text]

\* encode_str with the guard comparing the string as written
encode_str_ExactCase(s) ==
    IF s \in {WordTrue, WordFalse, WordNone}
    THEN Err("AmbiguousLiteral")
    ELSE IF \E i \in 1..Len(s) : s[i] \in ReservedChars
         THEN Ok(<<QUOTE>> \o EscapeQuotes(s) \o <<QUOTE>>)
         ELSE Ok(s)

encode_str(s) ==
    IF Lower(s) \in {WordTrue, WordFalse, WordNone}
    THEN Err("AmbiguousLiteral")
    ELSE IF \E i \in 1..Len(s) : s[i] \in ReservedChars
         THEN Ok(<<QUOTE>> \o EscapeQuotes(s) \o <<QUOTE>>)
         ELSE Ok(s)

RECURSIVE encode_value(_)
encode_value(v) ==
    CASE v.tag = "Null" -> Ok(WordNull)
      [] v.tag = "Bool" -> Ok(IF v.b THEN WordTrue ELSE WordFalse)
      [] v.tag = "Int" -> Ok(IntToText(v.n))
      [] v.tag = "Float" -> Ok(FloatToText(v))
      [] v.tag = "List" ->
            LET rs == [i \in 1..Len(v.items) |-> encode_value(v.items[i])]
            IN  IF FirstErr(rs).ok
                THEN Ok(<<"[">> \o Join(<<",", SP>>, Texts(rs)) \o <<"]">>)
                ELSE FirstErr(rs)
      [] v.tag = "Map" ->
            LET rs == [i \in 1..Len(v.kvs) |-> encode_value(v.kvs[i][2])]
                ps == [i \in 1..Len(v.kvs) |->
                          v.kvs[i][1] \o <<":", SP>> \o rs[i].text]
            IN  IF FirstErr(rs).ok
                THEN Ok(<<"{">> \o Join(<<",", SP>>, ps) \o <<"}">>)
                ELSE FirstErr(rs)
      [] v.tag = "Str" -> encode_str(v.s)

----------------------------------------------------------------------------
(* _split_top_level_commas *)

\* SplitStep with the comma test ignoring the quote flag
SplitStep_NoQuoteCheck(t, st, i) ==
    LET ch == t[i]
    IN  IF st.esc THEN [st EXCEPT !.esc = FALSE]
        ELSE IF ch = BSL THEN [st EXCEPT !.esc = TRUE]
        ELSE IF ch = QUOTE THEN [st EXCEPT !.in_quotes = ~st.in_quotes]
        ELSE IF ch \in {"[", "{"} THEN [st EXCEPT !.stack = Append(st.stack, ch)]
        ELSE IF ch \in {"]", "}"}
             THEN IF st.stack # <<>>
                  THEN [st EXCEPT !.stack = SubSeq(st.stack, 1, Len(st.stack) - 1)]
                  ELSE st
        ELSE IF ch = "," /\ st.stack = <<>>
             THEN [st EXCEPT !.out = Append(st.out, Strip(SubSeq(t, st.start + 1, i - 1))),
                             !.start = i]
        ELSE st

\* one character of the scan: st is [stack, in_quotes, esc, start, out],
\* i the 1-based position of ch (the code's i + 1)
SplitStep(t, st, i) ==
    LET ch == t[i]
    IN  IF st.esc THEN [st EXCEPT !.esc = FALSE]
        ELSE IF ch = BSL THEN [st EXCEPT !.esc = TRUE]
        ELSE IF ch = QUOTE THEN [st EXCEPT !.in_quotes = ~st.in_quotes]
        ELSE IF ch \in {"[", "{"} THEN [st EXCEPT !.stack = Append(st.stack, ch)]
        ELSE IF ch \in {"]", "}"}
             THEN IF st.stack # <<>>
                  THEN [st EXCEPT !.stack = SubSeq(st.stack, 1, Len(st.stack) - 1)]
                  ELSE st
        ELSE IF ch = "," /\ st.stack = <<>> /\ ~st.in_quotes
             THEN [st EXCEPT !.out = Append(st.out, Strip(SubSeq(t, st.start + 1, i - 1))),
                             !.start = i]
        ELSE st

RECURSIVE SplitScan(_, _, _)
SplitScan(t, st, i) ==
    IF i > Len(t) THEN st ELSE SplitScan(t, SplitStep(t, st, i), i + 1)

split_top_level_commas(t) ==
    LET st == SplitScan(t, [stack |-> <<>>, in_quotes |-> FALSE, esc |-> FALSE,
                            start |-> 0, out |-> <<>>], 1)
    IN  IF st.start < Len(t)
        THEN Append(st.out, Strip(From(t, st.start)))
        ELSE st.out

----------------------------------------------------------------------------
(* _split_key_value *)

\* st is [cur, stack, in_quotes, esc, done, key, val]
KeyValueStep(t, st, i) ==
    LET ch == t[i]
        keep == [st EXCEPT !.cur = Append(st.cur, ch)]
    IN  IF st.done THEN st
        ELSE IF st.esc THEN [keep EXCEPT !.esc = FALSE]
        ELSE IF ch = BSL THEN [keep EXCEPT !.esc = TRUE]
        ELSE IF ch = QUOTE THEN [keep EXCEPT !.in_quotes = ~st.in_quotes]
        ELSE IF st.in_quotes THEN keep
        ELSE IF ch \in {"[", "{"} THEN [keep EXCEPT !.stack = Append(st.stack, ch)]
        ELSE IF ch \in {"]", "}"}
             THEN IF st.stack # <<>>
                  THEN [keep EXCEPT !.stack = SubSeq(st.stack, 1, Len(st.stack) - 1)]
                  ELSE keep
        ELSE IF ch = ":" /\ st.stack = <<>> /\ ~st.in_quotes
             THEN [st EXCEPT !.done = TRUE, !.key = Strip(st.cur),
                             !.val = Strip(From(t, i))]
        ELSE keep

RECURSIVE KeyValueScan(_, _, _)
KeyValueScan(t, st, i) ==
    IF i > Len(t) THEN st ELSE KeyValueScan(t, KeyValueStep(t, st, i), i + 1)

\* <<key, val>>
split_key_value(t) ==
    LET st == KeyValueScan(t, [cur |-> <<>>, stack |-> <<>>, in_quotes |-> FALSE,
                               esc |-> FALSE, done |-> FALSE, key |-> <<>>,
                               val |-> <<>>], 1)
    IN  IF st.done THEN <<st.key, st.val>> ELSE <<Strip(t), <<>>>>

----------------------------------------------------------------------------
(* parse_value *)

Inner(tok) == Strip(SubSeq(tok, 2, Len(tok) - 1))

RECURSIVE parse_value(_)
RECURSIVE ParseMapFrom(_, _, _)

\* the loop of the map branch: obj[key] = parse_value(v) per segment
ParseMapFrom(ps, i, obj) ==
    IF i > Len(ps) THEN obj
    ELSE LET kv == split_key_value(ps[i])
         IN  ParseMapFrom(ps, i + 1,
                 MapSet(obj, StripQuotes(Strip(kv[1])), parse_value(kv[2])))

parse_value(tok0) ==
    LET tok == Strip(tok0)
        low == Lower(tok)
    IN  IF tok = <<>> THEN VNull
        ELSE IF low \in {WordNull, WordNone} THEN VNull
        ELSE IF low = WordTrue THEN VBool(TRUE)
        ELSE IF low = WordFalse THEN VBool(FALSE)
        ELSE IF tok[1] = QUOTE /\ tok[Len(tok)] = QUOTE
             THEN VStr(UnescapeQuotes(SubSeq(tok, 2, Len(tok) - 1)))
        ELSE IF tok[1] = "[" /\ tok[Len(tok)] = "]"
             THEN IF Inner(tok) = <<>> THEN VList(<<>>)
                  ELSE LET ps == split_top_level_commas(Inner(tok))
                       IN  VList([i \in 1..Len(ps) |-> parse_value(ps[i])])
        ELSE IF tok[1] = "{" /\ tok[Len(tok)] = "}"
             THEN IF Inner(tok) = <<>> THEN VMap(<<>>)
                  ELSE VMap(ParseMapFrom(split_top_level_commas(Inner(tok)), 1, <<>>))
        ELSE IF IsIntTok(tok) THEN VInt(TextToInt(tok))
        ELSE IF IsFloatTok(tok) THEN TextToFloat(tok)
        ELSE VStr(tok)


----------------------------------------------------------------------------
(* dict_to_toonplus and _encode_list_block *)

IsNested(v) == v.tag \in {"List", "Map"}

\* "{" + ",".join(keys) + "}" after the block's name (empty when unnamed)
Header(name, keys) == name \o <<"{">> \o Join(<<",">>, keys) \o <<"}">>

\* ",".join(encode_value(it[k]) for k in keys): it[k] raises on an element
\* that is no dict or lacks the key
encode_row(it, keys) ==
    LET rs == [j \in 1..Len(keys) |->
                  IF it.tag # "Map" THEN Err("TypeError")
                  ELSE IF ~HasKey(it.kvs, keys[j]) THEN Err("KeyError")
                  ELSE encode_value(MapGet(it.kvs, keys[j]))]
    IN  IF FirstErr(rs).ok THEN Ok(Join(<<",">>, Texts(rs))) ELSE FirstErr(rs)

\* name is the empty text for None: both take the unnamed header
encode_list_block(name, items) ==
    IF items = <<>> \/ items[1].tag # "Map"
    THEN encode_value(VList(items))
    ELSE LET keys == Keys(items[1].kvs)
             rows == [i \in 1..Len(items) |-> encode_row(items[i], keys)]
         IN  IF FirstErr(rows).ok
             THEN Ok(Header(name, keys) \o <<NL>> \o Join(<<NL>>, Texts(rows)))
             ELSE FirstErr(rows)

\* encode_entry rendering a scalar as a one-row named block
encode_entry_ScalarBlock(name, value) ==
    IF value.tag = "List" THEN encode_list_block(name, value.items)
    ELSE IF value.tag = "Map"
         THEN LET row == encode_row(value, Keys(value.kvs))
              IN  IF row.ok
                  THEN Ok(Header(name, Keys(value.kvs)) \o <<NL>> \o row.text)
                  ELSE row
    ELSE IF encode_value(value).ok
         THEN Ok(Header(name, <<name>>) \o <<NL>> \o encode_value(value).text)
         ELSE encode_value(value)

\* one entry of a map with a nested value
encode_entry(name, value) ==
    IF value.tag = "List" THEN encode_list_block(name, value.items)
    ELSE IF value.tag = "Map"
         THEN LET row == encode_row(value, Keys(value.kvs))
              IN  IF row.ok
                  THEN Ok(Header(name, Keys(value.kvs)) \o <<NL>> \o row.text)
                  ELSE row
    ELSE Err("UnsupportedType")

dict_to_toonplus(data) ==
    IF data.tag = "List" THEN encode_list_block(<<>>, data.items)
    ELSE IF data.tag = "Map"
    THEN IF \A i \in 1..Len(data.kvs) : ~IsNested(data.kvs[i][2])
         THEN LET row == encode_row(data, Keys(data.kvs))
              IN  IF row.ok
                  THEN Ok(Header(<<>>, Keys(data.kvs)) \o <<NL>> \o row.text)
                  ELSE row
         ELSE LET blocks == [i \in 1..Len(data.kvs) |->
                                encode_entry(data.kvs[i][1], data.kvs[i][2])]
              IN  IF FirstErr(blocks).ok
                  THEN Ok(Join(<<NL, NL>>, Texts(blocks)))
                  ELSE FirstErr(blocks)
    ELSE Err("TypeError")

----------------------------------------------------------------------------
(* toonplus_to_dict *)

\* the key a block without identifier gets in the result (Python's None):
\* no text, since its one element is not a character
NoneKey == <<"None">>

\* ^ of the header pattern under re.MULTILINE, p a 0-based offset
AtLineStart(t, p) == p = 0 \/ t[p] = NL

\* the end (0-based, exclusive) of [A-Za-z0-9_]* from offset p
RECURSIVE IdentEnd(_, _)
IdentEnd(t, p) ==
    IF p < Len(t) /\ IsIdentChar(t[p + 1]) THEN IdentEnd(t, p + 1) ELSE p

\* ([A-Za-z0-9_]+)?\{([^}]+)\}$ tried at offset p: the match, or ok = FALSE
HeaderAt(t, p) ==
    LET q == IdentEnd(t, p)
        closers == {j \in (q + 2)..Len(t) : t[j] = "}"}
        r == SetMin(closers)
    IN  IF /\ q < Len(t)
           /\ t[q + 1] = "{"
           /\ closers # {}
           /\ r >= q + 3
           /\ (r = Len(t) \/ t[r + 1] = NL)
        THEN [ok |-> TRUE, named |-> q > p, name |-> SubSeq(t, p + 1, q),
              content |-> SubSeq(t, q + 2, r - 1), start |-> p, end |-> r]
        ELSE [ok |-> FALSE]

\* header_re.finditer(text): the matches from offset p on, left to right,
\* each search resuming where the last match ended
RECURSIVE HeaderMatches(_, _)
HeaderMatches(t, p) ==
    IF p >= Len(t) THEN <<>>
    ELSE IF AtLineStart(t, p) /\ HeaderAt(t, p).ok
         THEN <<HeaderAt(t, p)>> \o HeaderMatches(t, HeaderAt(t, p).end)
         ELSE HeaderMatches(t, p + 1)

\* [k.strip() for k in m.group(2).split(",")]
HeaderKeys(m) ==
    LET ks == SplitOn(m.content, ",")
    IN  [i \in 1..Len(ks) |-> Strip(ks[i])]

\* [l.strip() for l in body.split("\n") if l.strip()]
BodyLines(body) ==
    LET ls == SplitOn(body, NL)
    IN  SelectSeq([i \in 1..Len(ls) |-> Strip(ls[i])], LAMBDA l : l # <<>>)

\* dict(zip(keys, map(parse_value, split_top_level_commas(ln))))
RowMap(keys, ln) ==
    LET vs == split_top_level_commas(ln)
    IN  VMap(DictZip(keys, [i \in 1..Len(vs) |-> parse_value(vs[i])]))

\* one line: a map; otherwise a list of maps
BlockValue(keys, body) ==
    LET lines == BodyLines(Strip(body))
    IN  IF Len(lines) = 1 THEN RowMap(keys, lines[1])
        ELSE VList([i \in 1..Len(lines) |-> RowMap(keys, lines[i])])

\* BlocksFrom with every body running to the end of the text
RECURSIVE BlocksFrom_BodyToEnd(_, _, _, _)
BlocksFrom_BodyToEnd(t, ms, i, result) ==
    IF i > Len(ms) THEN result
    ELSE LET m == ms[i]
             body == SubSeq(t, m.end + 1, Len(t))
         IN  BlocksFrom_BodyToEnd(t, ms, i + 1,
                 MapSet(result, IF m.named THEN m.name ELSE NoneKey,
                        BlockValue(HeaderKeys(m), body)))

\* the loop over several blocks: result[name] = ...
RECURSIVE BlocksFrom(_, _, _, _)
BlocksFrom(t, ms, i, result) ==
    IF i > Len(ms) THEN result
    ELSE LET m == ms[i]
             end == IF i + 1 <= Len(ms) THEN ms[i + 1].start ELSE Len(t)
             body == SubSeq(t, m.end + 1, end)
         IN  BlocksFrom(t, ms, i + 1,
                 MapSet(result, IF m.named THEN m.name ELSE NoneKey,
                        BlockValue(HeaderKeys(m), body)))

toonplus_to_dict(text0) ==
    LET t == Strip(text0)
        ms == HeaderMatches(t, 0)
    IN  IF t # <<>> /\ t[1] = "[" /\ t[Len(t)] = "]" THEN Val(parse_value(t))
        ELSE IF ms = <<>> THEN Err("InvalidFormat")
        ELSE IF Len(ms) = 1 /\ ~ms[1].named
             THEN Val(BlockValue(HeaderKeys(ms[1]), From(t, ms[1].end)))
        ELSE Val(VMap(BlocksFrom(t, ms, 1, <<>>)))

----------------------------------------------------------------------------
(* Inputs *)

MaxKeys == 2
MaxItems == 2
MaxRows == 2
MaxSplitLen == 4
MaxParseLen == 3
MaxLines == 4

\* all texts over alphabet of length at most n
TextsUpTo(alphabet, n) == UNION {[1..k -> alphabet] : k \in 0..n}

Nil == [tag |-> "Nil"]

Scalars ==
    {VNull, VBool(TRUE), VInt(1), VInt(0 - 12), VFloat(FALSE, 1, <<"5">>),
     VFloat(FALSE, 0, <<"0", "0", "0", "0", "1">>),
     VStr(<<"a">>), VStr(<<>>), VStr(WordNull), VStr(WordTrue),
     VStr(<<"T", "r", "u", "e">>), VStr(WordNone), VStr(<<"1", "2">>),
     VStr(<<"a", ",", "b">>), VStr(<<"[">>), VStr(<<"a", BSL>>),
     VStr(<<"x", NL, "y">>), VStr(<<SP, "a">>), VStr(<<"q", QUOTE>>)}

KeyNames == <<<<"a">>, <<"b">>, <<"c">>, <<"d">>>>
BlockNames == <<<<"x">>, <<"y">>, <<"z">>>>

\* the map with the first n key names and the values vs
MapOf(vs) == VMap([i \in 1..Len(vs) |-> <<KeyNames[i], vs[i]>>])

FlatMaps == {MapOf(vs) : vs \in TextsUpTo(Scalars, MaxKeys)}

Elems ==
    {VNull, VInt(1), VStr(<<"a">>), VStr(WordTrue), VStr(<<"a", ",", "b">>),
     VList(<<VInt(1), VInt(2), VInt(3)>>), VList(<<VStr(WordNone)>>),
     VMap(<<<<<<"k">>, VStr(<<"v">>)>>>>),
     VMap(<<<<<<"k">>, VStr(WordFalse)>>>>)}

Lists == {VList(vs) : vs \in TextsUpTo(Elems, MaxItems)}

RowVals ==
    {VInt(1), VStr(<<"a">>), VStr(WordTrue), VList(<<VInt(1), VInt(2), VInt(3)>>),
     VList(<<VStr(<<"F", "a", "l", "s", "e">>)>>)}

Rows == {MapOf(vs) : vs \in [1..2 -> RowVals]}

Tables == {VList(rs) : rs \in TextsUpTo(Rows, MaxRows) \ {<<>>}}

Entries ==
    {VInt(2), VStr(WordTrue), VList(<<>>), VList(<<VInt(1), VInt(2)>>),
     MapOf(<<VInt(1)>>), MapOf(<<VStr(<<"F", "a", "l", "s", "e">>)>>),
     VList(<<MapOf(<<VInt(1)>>), MapOf(<<VInt(2)>>)>>),
     VList(<<MapOf(<<VNull>>), MapOf(<<VStr(WordNone)>>)>>)}

NestedMaps ==
    {VMap(<<<<BlockNames[1], v>>>>) : v \in Tables}
    \cup {VMap([i \in 1..Len(vs) |-> <<BlockNames[i], vs[i]>>]) :
            vs \in TextsUpTo(Entries, MaxKeys) \ {<<>>}}

Docs == FlatMaps \cup Lists \cup Tables \cup NestedMaps \cup {VInt(1), VStr(<<"a">>)}

SplitAlphabet == {"a", ",", QUOTE, "[", "]", BSL, SP}

SplitExample ==
    <<"a", ",", QUOTE, "b", ",", "c", QUOTE, ",", "[", "1", ",", "2", "]", ",", "d">>

SplitTexts ==
    TextsUpTo(SplitAlphabet, MaxSplitLen)
    \cup {SplitExample,
          <<"{", "a", ":", "1", ",", "b", ":", "2", "}", ",", "c">>,
          <<QUOTE, "a", BSL, QUOTE, ",", "b", QUOTE, ",", "c">>,
          <<"a", ",", SP, "b", ",", SP>>}

ParseAlphabet == {QUOTE, "[", "]", "{", "}", "1", "-", ".", "a", BSL, SP}

ParseTexts ==
    TextsUpTo(ParseAlphabet, MaxParseLen)
    \cup {WordNull, WordNone, WordTrue, WordFalse,
          <<"N", "u", "l", "l">>, <<"T", "R", "U", "E">>, <<"F", "a", "l", "s", "e">>,
          <<SP, "n", "o", "n", "e", SP>>,
          <<QUOTE, "a", BSL, QUOTE, "b", QUOTE>>,
          <<QUOTE, "t", "r", "u", "e", QUOTE>>,
          <<"[", "1", ",", SP, QUOTE, "a", ",", "b", QUOTE, ",", SP, "[", "2", "]", "]">>,
          <<"{", "a", ":", SP, "1", ",", SP, QUOTE, "b", QUOTE, ":", SP, "[", "1", "]", "}">>,
          <<"-", "1", "2">>, <<"1", "2", ".", "5", "0">>, <<"0", "0", "7">>,
          <<"1", "e", "-", "0", "5">>, <<"a", ":", "b">>}

DecodeLines ==
    {<<"{", "a", "}">>, <<"x", "{", "a", ",", "b", "}">>, <<"y", "{", "a", "}">>,
     <<"1">>, <<"1", ",", "a">>, <<>>, <<"{", "a">>, <<"b", "}">>}

DecodeTexts ==
    {Join(<<NL>>, ls) : ls \in TextsUpTo(DecodeLines, MaxLines) \ {<<>>}}
    \cup {<<"[", "]">>, <<"{", "}">>, <<"[", "1", ",", SP, "2", "]">>, <<"[", "1">>,
          <<QUOTE, "h", "e", "l", "l", "o", QUOTE>>,
          <<SP, "[", "a", "]", NL>>,
          <<"{", SP, "a", SP, ",", "a", "}", NL, "1", ",", "2", ",", "3">>,
          <<"{", "a", "}", SP, NL, "1">>,
          <<"x", SP, "{", "a", "}", NL, "1">>}

----------------------------------------------------------------------------
(* The calls *)

InitCommon ==
    /\ enc = Nil
    /\ out = Nil
    /\ segs = <<>>

\* encode(doc), then decode of its output
Init ==
    /\ pc = "start"
    /\ doc \in Docs
    /\ text = <<>>
    /\ InitCommon

\* encode: dict_to_toonplus(data)
Encode ==
    /\ pc = "start"
    /\ enc' = dict_to_toonplus(doc)
    /\ text' = IF enc'.ok THEN enc'.text ELSE <<>>
    /\ pc' = "encoded"
    /\ UNCHANGED <<doc, out, segs>>

\* decode: toonplus_to_dict(text), of an encoder output or of a given text
Decode ==
    /\ pc \in {"encoded", "text"}
    /\ pc = "encoded" => enc.ok
    /\ out' = toonplus_to_dict(text)
    /\ pc' = "decoded"
    /\ UNCHANGED <<doc, text, enc, segs>>

Split ==
    /\ pc = "tosplit"
    /\ segs' = split_top_level_commas(text)
    /\ pc' = "split"
    /\ UNCHANGED <<doc, text, enc, out>>

Parse ==
    /\ pc = "toparse"
    /\ out' = Val(parse_value(text))
    /\ pc' = "parsed"
    /\ UNCHANGED <<doc, text, enc, segs>>

Next == Encode \/ Decode

Spec == Init /\ [][Next]_vars

\* decode(text) of a given text
InitDecode ==
    /\ pc = "text"
    /\ doc = Nil
    /\ text \in DecodeTexts
    /\ InitCommon

NextDecode == Decode

SpecDecode == InitDecode /\ [][NextDecode]_vars

\* _split_top_level_commas(text) of a given text
InitSplit ==
    /\ pc = "tosplit"
    /\ doc = Nil
    /\ text \in SplitTexts
    /\ InitCommon

NextSplit == Split

SpecSplit == InitSplit /\ [][NextSplit]_vars

\* parse_value(tok) of a given token
InitParse ==
    /\ pc = "toparse"
    /\ doc = Nil
    /\ text \in ParseTexts
    /\ InitCommon

NextParse == Parse

SpecParse == InitParse /\ [][NextParse]_vars

----------------------------------------------------------------------------
(* Top-level splitting, stated by position rather than by scan *)

\* the backslashes that directly precede position i
RECURSIVE BackslashRun(_, _)
BackslashRun(t, i) ==
    IF i > 1 /\ t[i - 1] = BSL THEN 1 + BackslashRun(t, i - 1) ELSE 0

\* the character at i has its structural meaning: it is neither made literal
\* by a backslash nor itself a backslash; without escapes every character has
Live(t, i, escapes) ==
    ~escapes \/ (t[i] # BSL /\ BackslashRun(t, i) % 2 = 0)

\* i lies after an odd number of live quotes
InQuotedSpan(t, i, escapes) ==
    Cardinality({j \in 1..(i - 1) : t[j] = QUOTE /\ Live(t, j, escapes)}) % 2 = 1

\* the nesting depth the characters before i leave: an opener adds one, a
\* closer removes one unless the depth is zero
RECURSIVE DepthBefore(_, _, _)
DepthBefore(t, i, escapes) ==
    IF i <= 1 THEN 0
    ELSE LET d == DepthBefore(t, i - 1, escapes)
             c == t[i - 1]
         IN  IF ~Live(t, i - 1, escapes) THEN d
             ELSE IF c \in {"[", "{"} THEN d + 1
             ELSE IF c \in {"]", "}"} /\ d > 0 THEN d - 1
             ELSE d

SplitPoints(t, escapes) ==
    {i \in 1..Len(t) : /\ t[i] = ","
                       /\ Live(t, i, escapes)
                       /\ ~InQuotedSpan(t, i, escapes)
                       /\ DepthBefore(t, i, escapes) = 0}

\* the trimmed segments the split points delimit, with what follows the last
\* split point when at least one character follows it
RECURSIVE SegmentsFrom(_, _, _)
SegmentsFrom(t, points, from) ==
    LET rest == {p \in points : p > from}
    IN  IF rest = {}
        THEN IF from < Len(t) THEN <<Strip(SubSeq(t, from + 1, Len(t)))>> ELSE <<>>
        ELSE <<Strip(SubSeq(t, from + 1, SetMin(rest) - 1))>>
             \o SegmentsFrom(t, points, SetMin(rest))

ExpectedSegments(t, escapes) == SegmentsFrom(t, SplitPoints(t, escapes), 0)

\* C5 as stated: the segments are those delimited by every comma outside
\* nesting and outside a quoted span, with no notion of an escaped character
C5_SplitIgnoringEscapes ==
    pc = "split" => segs = ExpectedSegments(text, FALSE)

\* C5, amended: the segments are, in order, exactly the trimmed pieces
\* delimited by the commas that are not made literal by a preceding backslash
\* and lie outside nesting and outside a quoted span (quotes and brackets
\* made literal by a backslash open and close nothing); what follows the
\* last split point is yielded when at least one character follows it
C5_TopLevelSplit ==
    pc = "split" => segs = ExpectedSegments(text, TRUE)

\* the documented example is split into its four segments
C5_Witness ==
    /\ pc = "split"
    /\ text = SplitExample
    /\ segs = <<<<"a">>, <<QUOTE, "b", ",", "c", QUOTE>>,
                <<"[", "1", ",", "2", "]">>, <<"d">>>>

----------------------------------------------------------------------------
(* Type inference of parse_value *)

IsKeyword(tok) == Lower(tok) \in {WordNull, WordNone, WordTrue, WordFalse}

\* wrapped in a pair of double quotes: an opening and a closing one
IsQuotedPair(tok) == Len(tok) >= 2 /\ tok[1] = QUOTE /\ tok[Len(tok)] = QUOTE

Wrapped(tok, open, close) == tok # <<>> /\ tok[1] = open /\ tok[Len(tok)] = close

\* the rule the priority order gives a trimmed token
RuleOf(tok) ==
    IF tok = <<>> THEN "empty"
    ELSE IF IsKeyword(tok) THEN "keyword"
    ELSE IF IsQuotedPair(tok) THEN "quoted"
    ELSE IF Wrapped(tok, "[", "]") THEN "list"
    ELSE IF Wrapped(tok, "{", "}") THEN "map"
    ELSE IF IsIntTok(tok) THEN "int"
    ELSE IF IsFloatTok(tok) THEN "float"
    ELSE "raw"

\* C4: parse_value classifies the trimmed token by the first rule that
\* matches, in the fixed order empty, keyword, quoted, list, map, integer,
\* decimal, raw; a quoted token has an opening and a closing quote and yields
\* its inside with \" unescaped, and a raw token yields itself
C4_TypeInferencePriority ==
    pc = "parsed" =>
        LET tok == Strip(text)
            rule == RuleOf(tok)
            v == out.val
        IN  /\ rule = "empty" => v = VNull
            /\ rule = "keyword" =>
                   v = IF Lower(tok) = WordTrue THEN VBool(TRUE)
                       ELSE IF Lower(tok) = WordFalse THEN VBool(FALSE)
                       ELSE VNull
            /\ rule = "quoted" =>
                   v = VStr(UnescapeQuotes(SubSeq(tok, 2, Len(tok) - 1)))
            /\ rule = "list" => v.tag = "List"
            /\ rule = "map" => v.tag = "Map"
            /\ rule = "int" => v.tag = "Int"
            /\ rule = "float" => v.tag = "Float"
            /\ rule = "raw" => v = VStr(tok)

----------------------------------------------------------------------------
(* Decoding a given text *)

IsEnclosed(t) == t # <<>> /\ t[1] = "[" /\ t[Len(t)] = "]"

\* a line that is a header by itself: an optional identifier directly
\* followed by {...} with non-empty content free of "}", and nothing else
IsHeaderLine(l) ==
    \E q \in 0..Len(l) :
        /\ \A i \in 1..q : IsIdentChar(l[i])
        /\ Len(l) >= q + 3
        /\ l[q + 1] = "{"
        /\ l[Len(l)] = "}"
        /\ \A i \in (q + 2)..(Len(l) - 1) : l[i] # "}"

HasHeaderLine(t) ==
    \E i \in 1..Len(SplitOn(t, NL)) : IsHeaderLine(SplitOn(t, NL)[i])

\* C6: decode("[]") is the empty list and decode("{}") the empty map
C6_EmptyContainers ==
    pc = "decoded" /\ doc = Nil =>
        /\ text = <<"[", "]">> => out = Val(VList(<<>>))
        /\ text = <<"{", "}">> => out = Val(VMap(<<>>))

\* C7: a text that, trimmed, is not enclosed in [ ] and has no header line
\* fails to decode with the invalid-format error
C7_MalformedRejected ==
    pc = "decoded" /\ doc = Nil /\ ~IsEnclosed(Strip(text))
                   /\ ~HasHeaderLine(Strip(text))
        => out = Err("InvalidFormat")

----------------------------------------------------------------------------
(* The shape of a decoded block *)

\* the non-blank lines of a body, trimmed, in line order
NonBlankLines(body) ==
    LET ls == SplitOn(body, NL)
        keep == {i \in 1..Len(ls) : \E j \in 1..Len(ls[i]) : ~IsSpace(ls[i][j])}
        RECURSIVE pick(_)
        pick(i) ==
            IF i > Len(ls) THEN <<>>
            ELSE (IF i \in keep THEN <<Strip(ls[i])>> ELSE <<>>) \o pick(i + 1)
    IN  pick(1)

\* m is the positional zip of keys with the parsed top-level segments of ln:
\* it pairs them up to the shorter, and a key's value is that of its last
\* paired position
IsZipOf(m, keys, ln) ==
    LET vs == split_top_level_commas(ln)
        n == IF Len(keys) < Len(vs) THEN Len(keys) ELSE Len(vs)
    IN  /\ m.tag = "Map"
        /\ {m.kvs[i][1] : i \in 1..Len(m.kvs)} = {keys[j] : j \in 1..n}
        /\ \A j \in 1..n :
               (\A k \in (j + 1)..n : keys[k] # keys[j])
                   => MapGet(m.kvs, keys[j]) = parse_value(vs[j])

\* v is what a block with these keys and this body decodes to: a single map
\* for exactly one non-blank line, else a list of one map per line
IsBlockOf(v, keys, body) ==
    LET lines == NonBlankLines(body)
    IN  IF Len(lines) = 1 THEN IsZipOf(v, keys, lines[1])
        ELSE /\ v.tag = "List"
             /\ Len(v.items) = Len(lines)
             /\ \A i \in 1..Len(lines) : IsZipOf(v.items[i], keys, lines[i])

----------------------------------------------------------------------------
(* Documents *)

IsAmbiguous(s) == Lower(s) \in {WordTrue, WordFalse, WordNone}

\* an ambiguous string occurs as a value somewhere in v
RECURSIVE ContainsAmbiguous(_)
ContainsAmbiguous(v) ==
    CASE v.tag = "Str" -> IsAmbiguous(v.s)
      [] v.tag = "List" -> \E i \in 1..Len(v.items) : ContainsAmbiguous(v.items[i])
      [] v.tag = "Map" -> \E i \in 1..Len(v.kvs) : ContainsAmbiguous(v.kvs[i][2])
      [] OTHER -> FALSE

\* built only from Null, Bool, Int, Float and strings free of the reserved
\* characters and not ambiguous
RECURSIVE IsPlain(_)
IsPlain(v) ==
    CASE v.tag = "Str" ->
            /\ ~IsAmbiguous(v.s)
            /\ \A i \in 1..Len(v.s) : v.s[i] \notin ReservedChars
      [] v.tag = "List" -> \A i \in 1..Len(v.items) : IsPlain(v.items[i])
      [] v.tag = "Map" -> \A i \in 1..Len(v.kvs) : IsPlain(v.kvs[i][2])
      [] OTHER -> TRUE

KeySet(m) == {m.kvs[i][1] : i \in 1..Len(m.kvs)}

\* a non-empty list of maps that all share the first element's key set
IsTable(v) ==
    /\ v.tag = "List"
    /\ v.items # <<>>
    /\ \A i \in 1..Len(v.items) :
           v.items[i].tag = "Map" /\ KeySet(v.items[i]) = KeySet(v.items[1])

IsFlatMap(v) ==
    v.tag = "Map" /\ \A i \in 1..Len(v.kvs) : ~IsNested(v.kvs[i][2])

\* a map whose entries are all tables or maps
IsBlockMap(v) ==
    /\ v.tag = "Map"
    /\ v.kvs # <<>>
    /\ \A i \in 1..Len(v.kvs) : IsTable(v.kvs[i][2]) \/ v.kvs[i][2].tag = "Map"

\* a list whose rows, if it is rendered as a block, carry the header's keys
IsListDocument(v) ==
    /\ v.tag = "List"
    /\ (v.items # <<>> /\ v.items[1].tag = "Map") => IsTable(v)

\* the documented shapes: a list, a flat map, a map of tables and maps
IsDocument(v) == IsListDocument(v) \/ IsFlatMap(v) \/ IsBlockMap(v)

\* C1: a document of the documented shapes built only from plain values
\* decodes back to itself
C1_RoundTrip ==
    pc = "decoded" /\ IsDocument(doc) /\ IsPlain(doc) => out = Val(doc)

\* C2: a map entry name -> L, L a non-empty list of maps sharing the first
\* element's key set, decodes back to the list L under name
C2_TabularRoundTrip ==
    pc = "decoded" /\ doc.tag = "Map" =>
        \A i \in 1..Len(doc.kvs) :
            IsTable(doc.kvs[i][2]) =>
                /\ out.ok
                /\ out.val.tag = "Map"
                /\ HasKey(out.val.kvs, doc.kvs[i][1])
                /\ MapGet(out.val.kvs, doc.kvs[i][1]) = doc.kvs[i][2]

\* C3: a document in which an ambiguous string occurs as a value is not
\* encoded: encode fails and produces no text, and in a document of the
\* documented shapes the failure is the ambiguous-literal error
C3_AmbiguityGuard ==
    pc = "encoded" /\ doc.tag \in {"List", "Map"} /\ ContainsAmbiguous(doc) =>
        /\ ~enc.ok
        /\ text = <<>>
        /\ IsDocument(doc) => enc = Err("AmbiguousLiteral")

\* the string "true" in the second row of a named table
C3_Witness ==
    /\ pc = "encoded"
    /\ doc = VMap(<<<<BlockNames[1],
                      VList(<<MapOf(<<VInt(1), VInt(1)>>),
                              MapOf(<<VInt(1), VStr(WordTrue)>>)>>)>>>>)
    /\ enc = Err("AmbiguousLiteral")
    /\ text = <<>>

----------------------------------------------------------------------------
(* Maps with nested values *)

HasNestedValue(v) == v.tag = "Map" /\ \E i \in 1..Len(v.kvs) : IsNested(v.kvs[i][2])

\* the first lines of the blocks of a text: its first line and every line
\* after a blank one
BlockHeads(t) ==
    LET ls == SplitOn(t, NL)
        RECURSIVE pick(_)
        pick(i) ==
            IF i > Len(ls) THEN <<>>
            ELSE (IF i = 1 \/ ls[i - 1] = <<>> THEN <<ls[i]>> ELSE <<>>) \o pick(i + 1)
    IN  pick(1)

StartsWith(t, prefix) ==
    Len(t) >= Len(prefix) /\ SubSeq(t, 1, Len(prefix)) = prefix

\* C8 as stated: a map with a nested value (its lists being tables) is
\* encoded without failure into one named block per entry, scalar-valued
\* entries included
C8_EveryEntryYieldsNamedBlock ==
    pc = "encoded" /\ HasNestedValue(doc) /\ ~ContainsAmbiguous(doc)
        /\ (\A i \in 1..Len(doc.kvs) :
                doc.kvs[i][2].tag = "List" => IsTable(doc.kvs[i][2]))
    =>
        /\ enc.ok
        /\ Len(BlockHeads(text)) = Len(doc.kvs)
        /\ \A i \in 1..Len(doc.kvs) :
               StartsWith(BlockHeads(text)[i], doc.kvs[i][1] \o <<"{">>)

\* the row of a map under a header's keys: its encoded values joined by ","
RowText(m, keys) ==
    Join(<<",">>, [j \in 1..Len(keys) |-> encode_value(MapGet(m.kvs, keys[j])).text])

\* what one nested entry renders to
EntryText(name, v) ==
    IF IsTable(v)
    THEN LET keys == Keys(v.items[1].kvs)
         IN  name \o <<"{">> \o Join(<<",">>, keys) \o <<"}">> \o <<NL>>
             \o Join(<<NL>>, [i \in 1..Len(v.items) |-> RowText(v.items[i], keys)])
    ELSE IF v.tag = "Map"
    THEN name \o <<"{">> \o Join(<<",">>, Keys(v.kvs)) \o <<"}">> \o <<NL>>
         \o RowText(v, Keys(v.kvs))
    ELSE <<"[">> \o Join(<<",", SP>>,
                         [i \in 1..Len(v.items) |-> encode_value(v.items[i]).text])
         \o <<"]">>

\* a nested entry encode can render: a map, a table, or a list that is empty
\* or starts with a value that is no map
IsRenderable(v) ==
    \/ v.tag = "Map"
    \/ IsTable(v)
    \/ v.tag = "List" /\ (v.items = <<>> \/ v.items[1].tag # "Map")

\* C8, amended: for a map with a nested value, a scalar-valued entry makes
\* encode fail, with the unsupported-type error when no entry before it holds
\* an ambiguous string; without scalar-valued entries the entries are rendered
\* in order and joined by a blank line, a table as name{keys} and one row per
\* element, a map as name{keys} and exactly one row, and a list that is empty
\* or starts with a value that is no map as the inline list without its name
C8_MixedMapEncoding ==
    pc = "encoded" /\ HasNestedValue(doc)
        /\ (\A i \in 1..Len(doc.kvs) : IsNested(doc.kvs[i][2]) => IsRenderable(doc.kvs[i][2]))
    =>
        LET scalars == {i \in 1..Len(doc.kvs) : ~IsNested(doc.kvs[i][2])}
        IN  IF scalars # {}
            THEN /\ ~enc.ok
                 /\ (\A i \in 1..(SetMin(scalars) - 1) :
                         ~ContainsAmbiguous(doc.kvs[i][2]))
                        => enc = Err("UnsupportedType")
            ELSE ~ContainsAmbiguous(doc) =>
                     enc = Ok(Join(<<NL, NL>>,
                                   [i \in 1..Len(doc.kvs) |->
                                       EntryText(doc.kvs[i][1], doc.kvs[i][2])]))

\* a scalar beside a nested map is refused
C8_Witness ==
    /\ pc = "encoded"
    /\ doc = VMap(<<<<BlockNames[1], MapOf(<<VInt(1)>>)>>, <<BlockNames[2], VInt(2)>>>>)
    /\ enc = Err("UnsupportedType")

----------------------------------------------------------------------------
(* Header and row arity of the encoder's output *)

\* the blocks a document is rendered to, each as <<number of keys, number of
\* rows>>; the documents that are rendered as blocks only
BlockLayout(v) ==
    IF IsFlatMap(v) THEN <<<<Len(v.kvs), 1>>>>
    ELSE IF v.tag = "List" THEN <<<<Len(v.items[1].kvs), Len(v.items)>>>>
    ELSE [i \in 1..Len(v.kvs) |->
             IF v.kvs[i][2].tag = "Map" THEN <<Len(v.kvs[i][2].kvs), 1>>
             ELSE <<Len(v.kvs[i][2].items[1].kvs), Len(v.kvs[i][2].items)>>]

IsBlockDocument(v) == IsFlatMap(v) \/ IsTable(v) \/ IsBlockMap(v)

\* the number of lines before block k: the blocks before it, each with its
\* header and the blank line after it
RECURSIVE LinesBefore(_, _)
LinesBefore(lay, k) ==
    IF k <= 1 THEN 0 ELSE LinesBefore(lay, k - 1) + lay[k - 1][2] + 2

\* C10: in the encoder's output every row occupies exactly one line and
\* splits at top level into as many segments as its header has keys
C10_RowArity ==
    pc = "encoded" /\ enc.ok /\ IsBlockDocument(doc) =>
        LET lay == BlockLayout(doc)
            lines == SplitOn(text, NL)
        IN  /\ Len(lines) = LinesBefore(lay, Len(lay) + 1) - 1
            /\ \A k \in 1..Len(lay) : \A r \in 1..lay[k][2] :
                   Len(split_top_level_commas(lines[LinesBefore(lay, k) + 1 + r]))
                       = lay[k][1]

============================================================================
